---------------------------- MODULE Spec2Model ----------------------------
(***************************************************************************)
(* BERNAISE post-processing: a model of postprocess.py (TimeSeries,        *)
(* geometry_in_time, make_gif) and analysis_scripts/flux_in_time.py        *)
(* (get_boundaries_list, get_boundary_to_mark, fetch_boundaries, method).  *)
(*                                                                         *)
(* The module holds seven state machines over one set of variables; the    *)
(* variables of the machines a specification does not run stay at their    *)
(* idle values:                                                            *)
(*   SpecGeom    the ranks of an MPI run inside geometry_in_time/make_gif  *)
(*   SpecLoad    TimeSeries.__init__ and _load_timeseries on an archive    *)
(*   SpecUpd     TimeSeries.set_val / update on a loaded mesh              *)
(*   SpecBnd     fetch_boundaries with its two helpers                     *)
(*   SpecParams  TimeSeries.get_parameters on a constructed time series    *)
(*   SpecXdict   the ranks of an MPI run inside TimeSeries._make_xdict     *)
(*   SpecFlux    method() of flux_in_time.py, fetch_boundaries included    *)
(***************************************************************************)
EXTENDS Integers, Sequences, FiniteSets, TLC

\* ------------------------------------------------------------------------
\* Bounds of the model
\* ------------------------------------------------------------------------
\* Largest number of MPI ranks (comm.Get_size()).
MaxRanks == 3
\* Largest number of time steps, len(ts).
MaxSteps == 3

\* A value that is no array, no file and no mapping.
None == "None"

\* ------------------------------------------------------------------------
\* State
\* ------------------------------------------------------------------------
VARIABLES
    \* --- geometry_in_time / make_gif, one process per rank ---
    method,      \* the analysis method main() dispatched to
    size,        \* comm.Get_size()
    nsteps,      \* len(ts)
    phiGeom,     \* step -> what the snapshot ts["phi", step] measures to
    pc,          \* rank -> position of that rank in the method
    stepIdx,     \* rank -> position in its range(rank, len(ts), size)
    lengths,     \* rank -> that rank's local array lengths
    areas,       \* rank -> that rank's local array areas
    areas_x,     \* rank -> that rank's local array areas_x[0]
    processed,   \* rank -> the steps its loop body has run for, in order
    written,     \* files in the analysis folder, each with the writing rank
    timeData,    \* <<rows>> of time_data.dat, or <<>> while it is not written
    \* --- the archive on disk and the TimeSeries object loaded from it ---
    settingsExists,    \* os.path.exists(self.settings_folder)
    timeseriesExists,  \* os.path.exists(self.timeseries_folder)
    archive,     \* from_tstep -> the checkpoint's parameter file and documents
    sought,      \* the sought_fields argument
    tsPc,        \* position of TimeSeries.__init__
    parameters,  \* self.parameters
    times,       \* self.times
    datasets,    \* self.datasets
    paramsRead,  \* the parameter files load_parameters was called on
    filesRead,   \* the (checkpoint, field) payload stores opened
    meshFrom,    \* the payload store self.nodes / self.elems were read from
    meshBuilt,   \* _load_mesh has built self.mesh and the function spaces
    foldersMade, \* the folders makedirs_safe has created
    \* --- the mesh side of a loaded TimeSeries and the functions updated ---
    nodes,       \* self.nodes: node index -> coordinate tuple
    xdict,       \* self.xdict: coordinate tuple -> node index
    x,           \* self.x: the coordinates of the locally-owned dofs
    funcs,       \* field -> local values of the dolfin function of the field
    dummy,       \* local values of self.dummy_function
    lastStep,    \* field -> step of the last completed update, -1 for none
    updPc,       \* "ready", or the error an update has raised
    \* --- fetch_boundaries (flux_in_time.py) ---
    boundaries,  \* create_bcs' mapping as its items: <<name, predicates>>
    pbc,         \* <<the periodic predicate>>, or <<>> for None
    extra_boundaries,  \* the comma-separated words of the argument
    boundaries_list,   \* the passes get_boundaries_list returned
    subdomains,  \* pass -> the MeshFunction: its fill value and mark calls
    ds,          \* pass -> the Measure, naming its subdomain_data
    boundary_to_mark,  \* name -> <<marker, pass>>
    bndPc,       \* position of method() and of its fetch_boundaries
    \* --- get_parameters ---
    got,         \* the last call: its time and <<the dict returned>>
    \* --- _make_xdict, one process per rank ---
    nprocs,      \* comm.Get_size()
    rankNodes,   \* rank -> self.nodes of the TimeSeries of that rank
    xdPc,        \* rank -> position of that rank in _make_xdict
    rankXdict,   \* rank -> its local xdict: <<the dict>>, <<>> for None
    bcastMsg,    \* <<the pickled object the root has broadcast>>, or <<>>
    built,       \* the ranks that have built an index from their nodes
    selfXdict,   \* rank -> what _make_xdict returned: <<the dict>>, <<>>
    \* --- method() of flux_in_time.py, behind fetch_boundaries ---
    fluxRank,    \* rank, the rank of the process
    steps,       \* what get_steps(ts, dt) returned
    fluxes,      \* flux name -> the fields its expression reads
    fluxI,       \* the number of passes of the loop over steps done
    fluxT,       \* the array t
    fluxData,    \* data: boundary name -> flux name -> array over the steps
    fluxFiles    \* boundary name -> the file flux_in_time_<name>.dat

geomVars == <<method, size, nsteps, phiGeom, pc, stepIdx, lengths, areas,
              areas_x, processed, written, timeData>>

loadVars == <<settingsExists, timeseriesExists, archive, sought, tsPc,
              parameters, times, datasets, paramsRead, filesRead, meshFrom,
              meshBuilt, foldersMade>>

updVars == <<nodes, xdict, x, funcs, dummy, lastStep, updPc>>

bndVars == <<boundaries, pbc, extra_boundaries, boundaries_list, subdomains,
             ds, boundary_to_mark, bndPc>>

parVars == <<got>>

xdVars == <<nprocs, rankNodes, xdPc, rankXdict, bcastMsg, built, selfXdict>>

fluxVars == <<fluxRank, steps, fluxes, fluxI, fluxT, fluxData, fluxFiles>>

vars == <<geomVars, loadVars, updVars, bndVars, parVars, xdVars, fluxVars>>

\* The machines a specification does not run keep their variables.
GeomFrame ==
    UNCHANGED <<loadVars, updVars, bndVars, parVars, xdVars, fluxVars>>
LoadFrame ==
    UNCHANGED <<geomVars, updVars, bndVars, parVars, xdVars, fluxVars>>
UpdFrame ==
    UNCHANGED <<geomVars, loadVars, bndVars, parVars, xdVars, fluxVars>>
BndFrame == UNCHANGED <<geomVars, updVars, parVars, xdVars, fluxVars>>
ParFrame ==
    UNCHANGED <<geomVars, loadVars, updVars, bndVars, xdVars, fluxVars>>
XdFrame ==
    UNCHANGED <<geomVars, loadVars, updVars, bndVars, parVars, fluxVars>>
FluxFrame == UNCHANGED <<geomVars, parVars, xdVars>>

\* Idle values of the variables of a machine that is not run.
GeomIdle ==
    /\ method = None /\ size = 0 /\ nsteps = 0 /\ phiGeom = <<>>
    /\ pc = <<>> /\ stepIdx = <<>> /\ lengths = <<>> /\ areas = <<>>
    /\ areas_x = <<>> /\ processed = <<>> /\ written = {} /\ timeData = <<>>

LoadIdle ==
    /\ settingsExists = FALSE /\ timeseriesExists = FALSE
    /\ archive = <<>> /\ sought = <<>> /\ tsPc = None
    /\ parameters = <<>> /\ times = <<>> /\ datasets = <<>>
    /\ paramsRead = {} /\ filesRead = {} /\ meshFrom = <<>>
    /\ meshBuilt = FALSE /\ foldersMade = {}

UpdIdle ==
    /\ nodes = <<>> /\ xdict = <<>> /\ x = <<>> /\ funcs = <<>>
    /\ dummy = <<>> /\ lastStep = <<>> /\ updPc = None

BndIdle ==
    /\ boundaries = <<>> /\ pbc = <<>> /\ extra_boundaries = {}
    /\ boundaries_list = <<>> /\ subdomains = <<>> /\ ds = <<>>
    /\ boundary_to_mark = <<>> /\ bndPc = None

ParIdle == got = <<>>

XdIdle ==
    /\ nprocs = 0 /\ rankNodes = <<>> /\ xdPc = <<>> /\ rankXdict = <<>>
    /\ bcastMsg = <<>> /\ built = {} /\ selfXdict = <<>>

FluxIdle ==
    /\ fluxRank = 0 /\ steps = <<>> /\ fluxes = <<>> /\ fluxI = 0
    /\ fluxT = <<>> /\ fluxData = <<>> /\ fluxFiles = <<>>

\* ------------------------------------------------------------------------
\* geometry_in_time and make_gif (postprocess.py)
\* ------------------------------------------------------------------------
Ranks == 0 .. (size - 1)
Steps == 0 .. (nsteps - 1)

\* What one phase-field snapshot measures to: the interface length that
\* path_length(zero_level_set(...)) returns, the area assemble(f_mask*dx)
\* returns and the first moment assemble(f_mask_x[0]*dx) returns.  A snapshot
\* without the phase (all zero) and one with a droplet.
GeomValues == { [len |-> 0, area |-> 0, area_x |-> 0],
                [len |-> 4, area |-> 2, area_x |-> 6] }

\* Range with the stop value included (a bug: "<=" where range has "<").
RECURSIVE RangeInclusiveStop(_, _, _)
RangeInclusiveStop(start, stop, step) ==
    IF start > stop THEN <<>>
    ELSE <<start>> \o RangeInclusiveStop(start + step, stop, step)

\* Python's range(start, stop, step) for step > 0, as the list it iterates.
RECURSIVE Range(_, _, _)
Range(start, stop, step) ==
    IF start >= stop THEN <<>>
    ELSE <<start>> \o Range(start + step, stop, step)

\* numpy's elementwise division areas_x[0]/areas: 0/0 is nan.
Div(a, b) == IF b = 0 THEN "nan" ELSE a \div b

\* np.zeros(len(ts))
Zeros == [s \in Steps |-> 0]

\* The row np.savetxt writes for step s from the arrays of the writing rank
\* (the columns Circ., Area, CoM_x; CoM_y is computed like CoM_x).
Row(r, s) == [length |-> lengths[r][s],
              area   |-> areas[r][s],
              com_x  |-> Div(areas_x[r][s], areas[r][s])]

\* The row of step s computed from the snapshot of step s itself.
TrueRow(s) == [length |-> phiGeom[s].len,
               area   |-> phiGeom[s].area,
               com_x  |-> Div(phiGeom[s].area_x, phiGeom[s].area)]

GeomInit ==
    /\ method \in {"geometry_in_time", "make_gif"}
    /\ size \in 1 .. MaxRanks
    /\ nsteps \in 0 .. MaxSteps
    /\ phiGeom \in [0 .. (nsteps - 1) -> GeomValues]
    /\ pc = [r \in 0 .. (size - 1) |-> "start"]
    /\ stepIdx = [r \in 0 .. (size - 1) |-> 1]
    /\ lengths = [r \in 0 .. (size - 1) |-> None]
    /\ areas = [r \in 0 .. (size - 1) |-> None]
    /\ areas_x = [r \in 0 .. (size - 1) |-> None]
    /\ processed = [r \in 0 .. (size - 1) |-> <<>>]
    /\ written = {}
    /\ timeData = <<>>

\* geometry_in_time, lines 293-303: the rank allocates its zero arrays.
GeomStart(r) ==
    /\ method = "geometry_in_time"
    /\ pc[r] = "start"
    /\ lengths' = [lengths EXCEPT ![r] = Zeros]
    /\ areas' = [areas EXCEPT ![r] = Zeros]
    /\ areas_x' = [areas_x EXCEPT ![r] = Zeros]
    /\ pc' = [pc EXCEPT ![r] = "loop"]
    /\ UNCHANGED <<method, size, nsteps, phiGeom, stepIdx, processed,
                   written, timeData>>
    /\ GeomFrame

\* One pass of the body of "for step in range(rank, len(ts), size)": the
\* contour file of the step is saved and the step's slot of each local array
\* is filled.
GeomStep(r) ==
    /\ pc[r] = "loop"
    /\ stepIdx[r] <= Len(Range(r, nsteps, size))
    /\ LET step == Range(r, nsteps, size)[stepIdx[r]] IN
        /\ written' = written \cup {[file |-> <<"contour", step>>, rank |-> r]}
        /\ lengths' = [lengths EXCEPT ![r][step] = phiGeom[step].len]
        /\ areas' = [areas EXCEPT ![r][step] = phiGeom[step].area]
        /\ areas_x' = [areas_x EXCEPT ![r][step] = phiGeom[step].area_x]
        /\ processed' = [processed EXCEPT ![r] = Append(@, step)]
    /\ stepIdx' = [stepIdx EXCEPT ![r] = @ + 1]
    /\ UNCHANGED <<method, size, nsteps, phiGeom, pc, timeData>>
    /\ GeomFrame

\* After the loop, "if rank == 0": rank 0 saves time_data.dat from its own
\* arrays; no communication precedes the write.
GeomWrite(r) ==
    /\ pc[r] = "loop"
    /\ stepIdx[r] > Len(Range(r, nsteps, size))
    /\ r = 0
    /\ timeData' = <<[s \in Steps |-> Row(r, s)]>>
    /\ written' = written \cup {[file |-> <<"time_data">>, rank |-> r]}
    /\ pc' = [pc EXCEPT ![r] = "done"]
    /\ UNCHANGED <<method, size, nsteps, phiGeom, stepIdx, lengths, areas,
                   areas_x, processed>>
    /\ GeomFrame

\* After the loop on a rank other than 0: the function returns.
GeomReturn(r) ==
    /\ pc[r] = "loop"
    /\ stepIdx[r] > Len(Range(r, nsteps, size))
    /\ r # 0
    /\ pc' = [pc EXCEPT ![r] = "done"]
    /\ UNCHANGED <<method, size, nsteps, phiGeom, stepIdx, lengths, areas,
                   areas_x, processed, written, timeData>>
    /\ GeomFrame

\* make_gif, line 392: ts.compute_charge() names a method TimeSeries does not
\* define (it defines compute_charge_datasets), so the call raises
\* AttributeError on every rank before the loop of lines 394-408.
MakeGifComputeCharge(r) ==
    /\ method = "make_gif"
    /\ pc[r] = "start"
    /\ pc' = [pc EXCEPT ![r] = "AttributeError"]
    /\ UNCHANGED <<method, size, nsteps, phiGeom, stepIdx, lengths, areas,
                   areas_x, processed, written, timeData>>
    /\ GeomFrame

GeomNext ==
    \/ \E r \in Ranks : GeomStart(r)
    \/ \E r \in Ranks : GeomStep(r)
    \/ \E r \in Ranks : GeomWrite(r)
    \/ \E r \in Ranks : GeomReturn(r)
    \/ \E r \in Ranks : MakeGifComputeCharge(r)

InitGeom ==
    GeomInit /\ LoadIdle /\ UpdIdle /\ BndIdle /\ ParIdle /\ XdIdle /\ FluxIdle

SpecGeom == InitGeom /\ [][GeomNext]_vars

\* ------------------------------------------------------------------------
\* C1  (geometry_in_time gathers before rank 0 writes)
\* ------------------------------------------------------------------------
\* C1: once rank 0 has written time_data.dat, the row of every step s holds
\* the length, area and centroid computed from the snapshot of step s, that
\* is the values the owning rank s mod R computed.
C1_RowsHoldOwnersValues ==
    timeData # <<>> => \A s \in Steps : timeData[1][s] = TrueRow(s)

\* ------------------------------------------------------------------------
\* C2  (round-robin distribution is a partition)
\* ------------------------------------------------------------------------
\* The set of steps rank r iterates.
StepSet(r) ==
    LET rng == Range(r, nsteps, size) IN {rng[i] : i \in 1 .. Len(rng)}

\* C2: for the N and R of the run, the step sets range(r, N, R) of the ranks
\* lie inside 0..N-1 and every step of 0..N-1 is in the set of exactly one
\* rank, with no step listed twice within a range; the loop of
\* geometry_in_time runs its body for a prefix of that range, and for all of
\* it once the rank has left the loop.
C2_RoundRobinPartition ==
    /\ \A r \in Ranks : StepSet(r) \subseteq Steps
    /\ \A s \in Steps : Cardinality({r \in Ranks : s \in StepSet(r)}) = 1
    /\ \A r \in Ranks :
          Cardinality(StepSet(r)) = Len(Range(r, nsteps, size))
    /\ \A r \in Ranks :
          /\ Len(processed[r]) <= Len(Range(r, nsteps, size))
          /\ processed[r] = SubSeq(Range(r, nsteps, size), 1, Len(processed[r]))
          /\ (method = "geometry_in_time" /\ pc[r] = "done")
                => processed[r] = Range(r, nsteps, size)

\* Witness of C2: a run on several ranks with more steps than ranks, every
\* rank done, a rank having processed two steps.
C2_Witness ==
    /\ size >= 2
    /\ nsteps > size
    /\ \A r \in Ranks : pc[r] = "done"
    /\ \E r \in Ranks : Len(processed[r]) >= 2

\* ------------------------------------------------------------------------
\* C12  (only rank 0 writes output)
\* ------------------------------------------------------------------------
\* C12: in a run on more than one rank, every file in the analysis folder
\* was written by rank 0.
C12_OnlyRankZeroWrites ==
    size > 1 => \A w \in written : w.rank = 0

\* ------------------------------------------------------------------------
\* C13  (make_gif renders behind the barrier)
\* ------------------------------------------------------------------------
\* C13: once every rank has left the start of make_gif, every rank comes to
\* the end of the method, the loop body that plots the image of a step has
\* run for every step 0..N-1 on the rank owning it, and the animation the
\* renderer makes of the images is written by rank 0.
C13_RendererSeesAllImages ==
    (method = "make_gif" /\ \A r \in Ranks : pc[r] # "start") =>
        /\ \A r \in Ranks : pc[r] = "done"
        /\ \A s \in Steps :
              \E r \in Ranks :
                  \E i \in 1 .. Len(processed[r]) : processed[r][i] = s
        /\ [file |-> <<"animation">>, rank |-> 0] \in written

\* ------------------------------------------------------------------------
\* TimeSeries.__init__ and _load_timeseries (postprocess.py)
\* ------------------------------------------------------------------------
\* Largest start time t_0 of a checkpoint.
MaxTime == 1
\* Largest number of entries one index document lists.
MaxEntries == 2

\* The field names the archive may hold index documents for.
Fields == {"phi", "u"}
\* The starting steps the parameter files of the archive are named by.
FromTsteps == {0, 50}

\* The archive: for each starting step, whether the parameter file
\* parameters_from_tstep_<step>.dat exists, the t_0 it records, the fields
\* with an index document <field>_from_tstep_<step>.xdmf and the number of
\* (time, dset_address) entries each document lists.  A checkpoint records
\* its entries from its start time on, one per unit of time.
Checkpoint ==
    { c \in [exists : BOOLEAN, t_0 : 0 .. MaxTime, xdmf : SUBSET Fields,
             n : [Fields -> 0 .. MaxEntries]] :
        /\ \A f \in Fields \ c.xdmf : c.n[f] = 0
        /\ ~c.exists => (c.t_0 = 0 /\ c.xdmf = {}) }

\* sought_fields: None (all fields), or a list of field names.
SoughtChoices ==
    { [all |-> TRUE, list |-> {}] }
        \cup { [all |-> FALSE, list |-> l] : l \in SUBSET Fields }

\* The checkpoints glob.glob finds a parameter file for.
Ckpts == {c \in DOMAIN archive : archive[c].exists}

\* parse_xdmf(xml_file): the (time, dset_address) pairs of the document of
\* field f in checkpoint c; the address names the array in that checkpoint's
\* payload store.
Dsets(c, f) ==
    [k \in 1 .. archive[c].n[f] |-> <<archive[c].t_0 + (k - 1), <<c, f, k>>>>]

\* The time stamp the archive lists for the array at a dset_address.
StampOf(addr) == archive[addr[1]].t_0 + (addr[3] - 1)

\* The orders glob.glob may return the members of S in.
Orders(S) ==
    { s \in [1 .. Cardinality(S) -> S] :
        \A i, j \in 1 .. Cardinality(S) : i # j => s[i] # s[j] }

\* d[k] = v on a Python dict.
Put(d, k, v) == [y \in DOMAIN d \cup {k} |-> IF y = k THEN v ELSE d[y]]

\* The folder check with "or" for "and" (a bug).
FoldersPresentEither == settingsExists \/ timeseriesExists

\* Lines 116-117: os.path.exists(settings) and os.path.exists(timeseries).
FoldersPresent == settingsExists /\ timeseriesExists

\* The field filter that ignores sought_fields (a bug).
IsSoughtAlways(field) == TRUE

\* Lines 148-149: sought_fields is None or field in sought_fields.
IsSought(field) == sought.all \/ field \in sought.list

\* A fresh dict for the field at every document (a bug: the entries of the
\* checkpoints read before are dropped).
FieldDictFresh(data, field) == <<>>

\* Lines 150-151: data[field], created empty when the field is new.
FieldDict(data, field) == IF field \in DOMAIN data THEN data[field] ELSE <<>>

\* Lines 159-160: data[field][time] = np.array(h5f[dset_address]) for every
\* pair of the document, in the document's order; the array read is named by
\* its address.
RECURSIVE PutEntries(_, _, _)
PutEntries(d, dsets, i) ==
    IF i > Len(dsets) THEN d
    ELSE PutEntries(Put(d, dsets[i][1], dsets[i][2]), dsets, i + 1)

\* Lines 143-160 for one index document: skipped unless the field is sought.
LoadFile(data, c, f) ==
    IF IsSought(f)
    THEN Put(data, f, PutEntries(FieldDict(data, f), Dsets(c, f), 1))
    ELSE data

\* The index documents in the order the two nested loops of lines 125-141
\* visit them: checkpoints in the order corder, the documents of each
\* checkpoint in the order forder lists their fields.
RECURSIVE XmlFiles(_, _, _, _)
XmlFiles(corder, forder, i, j) ==
    IF i > Len(corder) THEN <<>>
    ELSE IF j > Len(forder) THEN XmlFiles(corder, forder, i + 1, 1)
    ELSE (IF forder[j] \in archive[corder[i]].xdmf
          THEN << <<corder[i], forder[j]>> >> ELSE <<>>)
         \o XmlFiles(corder, forder, i, j + 1)

\* The dict data after the documents files[i..] are read.
RECURSIVE LoadFiles(_, _, _)
LoadFiles(data, files, i) ==
    IF i > Len(files) THEN data
    ELSE LoadFiles(LoadFile(data, files[i][1], files[i][2]), files, i + 1)

\* Lines 127-136: self.parameters[t_0] = parameters for the checkpoints in
\* the order corder; the record read from a parameter file is named by the
\* file's starting step.
RECURSIVE LoadParams(_, _, _)
LoadParams(params, corder, i) ==
    IF i > Len(corder) THEN params
    ELSE LoadParams(Put(params, archive[corder[i]].t_0,
                        [from_tstep |-> corder[i],
                         t_0 |-> archive[corder[i]].t_0]),
                    corder, i + 1)

\* The smallest key of a dict with number keys.
MinKey(d) == CHOOSE k \in DOMAIN d : \A y \in DOMAIN d : k <= y
\* The largest key of a dict with number keys.
MaxKey(d) == CHOOSE k \in DOMAIN d : \A y \in DOMAIN d : k >= y

\* d without the key k.
Without(d, k) == [y \in DOMAIN d \ {k} |-> d[y]]

\* The items in descending order of the key (a bug: sorted(..., reverse)).
RECURSIVE SortedItemsDescending(_)
SortedItemsDescending(d) ==
    IF DOMAIN d = {} THEN <<>>
    ELSE << <<MaxKey(d), d[MaxKey(d)]>> >>
         \o SortedItemsDescending(Without(d, MaxKey(d)))

\* sorted(d.items()): the (key, value) pairs in ascending order of the key
\* (the keys of a dict are distinct, so the values never decide the order).
RECURSIVE SortedItems(_)
SortedItems(d) ==
    IF DOMAIN d = {} THEN <<>>
    ELSE << <<MinKey(d), d[MinKey(d)]>> >> \o SortedItems(Without(d, MinKey(d)))

\* [tmp[0] for tmp in tmps] and [tmp[1] for tmp in tmps]
Column(tmps, col) == [i \in 1 .. Len(tmps) |-> tmps[i][col]]

\* The time axis as the positions of the entries (a bug: the index in place
\* of the key).
TimeAxisPositions(tmps) == [i \in 1 .. Len(tmps) |-> i - 1]

\* Line 165: self.times = [tmp[0] for tmp in tmps], the keys of the field
\* data.keys() lists first.
TimeAxis(tmps) == Column(tmps, 1)

\* self.fields = self.datasets.keys()
fields == DOMAIN datasets

LoadInit ==
    /\ settingsExists \in BOOLEAN
    /\ timeseriesExists \in BOOLEAN
    /\ archive \in [FromTsteps -> Checkpoint]
    \* parameter files live in Settings, index documents in Timeseries
    /\ ~settingsExists => \A c \in FromTsteps : ~archive[c].exists
    /\ ~timeseriesExists => \A c \in FromTsteps : archive[c].xdmf = {}
    /\ sought \in SoughtChoices
    /\ tsPc = "new"
    /\ parameters = <<>>
    /\ times = <<>>
    /\ datasets = <<>>
    /\ paramsRead = {}
    /\ filesRead = {}
    /\ meshFrom = <<>>
    /\ meshBuilt = FALSE
    /\ foldersMade = {}

\* _load_timeseries, lines 119-122: a folder is missing; exit() ends the
\* process inside __init__.
LoadExit ==
    /\ tsPc = "new"
    /\ ~FoldersPresent
    /\ tsPc' = "exit"
    /\ UNCHANGED <<settingsExists, timeseriesExists, archive, sought,
                   parameters, times, datasets, paramsRead, filesRead,
                   meshFrom, meshBuilt, foldersMade>>
    /\ LoadFrame

\* _load_timeseries, lines 116-168, both folders present: every parameter
\* file and every sought index document is read, in an order glob.glob
\* chooses, then each field's dict is sorted; the time axis is taken from the
\* field data.keys() lists first.
LoadTimeseries ==
    /\ tsPc = "new"
    /\ FoldersPresent
    /\ \E corder \in Orders(Ckpts), forder \in Orders(Fields) :
        LET files == XmlFiles(corder, forder, 1, 1)
            data == LoadFiles(<<>>, files, 1)
            opened == {i \in 1 .. Len(files) : IsSought(files[i][2])}
        IN  /\ parameters' = SortedItems(LoadParams(<<>>, corder, 1))
            /\ paramsRead' = Ckpts
            /\ filesRead' = {files[i] : i \in opened}
            /\ meshFrom' = IF opened = {} THEN <<>>
                           ELSE files[CHOOSE i \in opened :
                                        \A j \in opened : i <= j]
            /\ datasets' = [key \in DOMAIN data |->
                              Column(SortedItems(data[key]), 2)]
            /\ \/ /\ DOMAIN data = {}
                  /\ times' = <<>>
               \/ \E first \in DOMAIN data :
                      times' = TimeAxis(SortedItems(data[first]))
    /\ tsPc' = "loaded"
    /\ UNCHANGED <<settingsExists, timeseriesExists, archive, sought,
                   meshBuilt, foldersMade>>
    /\ LoadFrame

\* __init__, lines 88-95, some field was loaded: the mesh and the function
\* spaces are built and the output folders created.
LoadMesh ==
    /\ tsPc = "loaded"
    /\ fields # {}
    /\ meshBuilt' = TRUE
    /\ foldersMade' = {"Analysis", "Plots", ".tmp"}
    /\ tsPc' = "ready"
    /\ UNCHANGED <<settingsExists, timeseriesExists, archive, sought,
                   parameters, times, datasets, paramsRead, filesRead,
                   meshFrom>>
    /\ LoadFrame

\* __init__, line 88, no field was loaded: the constructor returns.
LoadNoFields ==
    /\ tsPc = "loaded"
    /\ fields = {}
    /\ tsPc' = "ready"
    /\ UNCHANGED <<settingsExists, timeseriesExists, archive, sought,
                   parameters, times, datasets, paramsRead, filesRead,
                   meshFrom, meshBuilt, foldersMade>>
    /\ LoadFrame

LoadNext ==
    \/ LoadExit
    \/ LoadTimeseries
    \/ LoadMesh
    \/ LoadNoFields

InitLoad ==
    LoadInit /\ GeomIdle /\ UpdIdle /\ BndIdle /\ ParIdle /\ XdIdle /\ FluxIdle

SpecLoad == InitLoad /\ [][LoadNext]_vars

\* _load_timeseries has returned.
Loaded == tsPc \in {"loaded", "ready"}

\* The time stamps of a sequence of snapshots.
Stamps(snaps) == [i \in 1 .. Len(snaps) |-> StampOf(snaps[i])]

\* A sequence of numbers in non-decreasing order.
NonDecreasing(s) == \A i, j \in 1 .. Len(s) : i < j => s[i] <= s[j]

\* The entries the index documents of all checkpoints list for field f.
Listed(f) ==
    {<<c, f, k>> : c \in {y \in Ckpts : f \in archive[y].xdmf},
                   k \in 1 .. MaxEntries} \cap
    {a \in FromTsteps \X {f} \X (1 .. MaxEntries) : a[3] <= archive[a[1]].n[f]}

\* ------------------------------------------------------------------------
\* C7  (one time axis, sorted)
\* ------------------------------------------------------------------------
\* C7: after _load_timeseries, in whatever order the files were found,
\* ts.times is in non-decreasing order, the snapshots of every loaded field
\* are in non-decreasing order of their time stamps, and the sequence of a
\* field holds the time stamps of the entries of all checkpoints.
C7_SortedByTime ==
    Loaded =>
        /\ NonDecreasing(times)
        /\ \A f \in fields :
              /\ NonDecreasing(Stamps(datasets[f]))
              /\ {StampOf(datasets[f][i]) : i \in 1 .. Len(datasets[f])}
                    = {StampOf(a) : a \in Listed(f)}

\* Witness of C7: a field loaded from two checkpoints with different start
\* times, three snapshots or more on the axis.
C7_Witness ==
    /\ Loaded
    /\ archive[0].t_0 > archive[50].t_0
    /\ \E f \in fields :
          /\ \A c \in FromTsteps : archive[c].exists /\ archive[c].n[f] >= 1
          /\ Len(datasets[f]) >= 3
          /\ Len(times) >= 3

\* ------------------------------------------------------------------------
\* C8  (merging and equal time stamps)
\* ------------------------------------------------------------------------
\* C8 as stated: the merged sequence of a field has as many entries as the
\* index documents of all checkpoints list for it.
C8_NoDeduplication ==
    Loaded => \A f \in fields : Len(datasets[f]) = Cardinality(Listed(f))

\* C8 as amended: the merged sequence of a field has one entry for each
\* distinct time stamp the index documents of all checkpoints list for it;
\* entries with different time stamps are all kept, and of the entries two
\* checkpoints list with the same time stamp one is kept.
C8_OneEntryPerTimeStamp ==
    Loaded =>
        \A f \in fields :
            /\ Len(datasets[f])
                  = Cardinality({StampOf(a) : a \in Listed(f)})
            /\ \A a \in Listed(f) :
                  Cardinality({i \in 1 .. Len(datasets[f]) :
                                 StampOf(datasets[f][i]) = StampOf(a)}) = 1

\* Witness of C8: two checkpoints list an entry of a field with the same
\* time stamp and other entries besides.
C8_Witness ==
    /\ Loaded
    /\ \E f \in fields :
          /\ \E a, b \in Listed(f) :
                a[1] # b[1] /\ StampOf(a) = StampOf(b)
          /\ Len(datasets[f]) >= 2
          /\ Len(datasets[f]) < Cardinality(Listed(f))

\* ------------------------------------------------------------------------
\* C9  (the available fields)
\* ------------------------------------------------------------------------
\* The fields with an index document in at least one checkpoint.
Found == {f \in Fields : \E c \in Ckpts : f \in archive[c].xdmf}

\* C9: with both folders present the load ends without a halt, and the
\* available fields are the sought fields found in some checkpoint (all the
\* fields found when sought_fields is None).
C9_AvailableFields ==
    /\ (FoldersPresent /\ tsPc # "new") => Loaded
    /\ Loaded =>
          fields = IF sought.all THEN Found ELSE sought.list \cap Found

\* Witness of C9: a list of two sought fields, one found and one in no
\* checkpoint; the construction has finished with the found one only.
C9_Witness ==
    /\ tsPc = "ready"
    /\ ~sought.all
    /\ sought.list = {"phi", "u"}
    /\ Found = {"phi"}
    /\ fields = {"phi"}

\* ------------------------------------------------------------------------
\* C10  (missing Settings or Timeseries folder)
\* ------------------------------------------------------------------------
\* C10: when the Settings or the Timeseries folder is missing, the process
\* is at its start or halted by exit(), no parameter file and no field has
\* been read, and no mesh, function space or output folder was made.
C10_MissingFolderHalts ==
    (~settingsExists \/ ~timeseriesExists) =>
        /\ tsPc \in {"new", "exit"}
        /\ paramsRead = {} /\ filesRead = {}
        /\ parameters = <<>> /\ datasets = <<>> /\ times = <<>>
        /\ ~meshBuilt
        /\ foldersMade = {}

\* Witness of C10: halted with Settings present and holding parameter files
\* while Timeseries is missing.
C10_Witness ==
    /\ tsPc = "exit"
    /\ settingsExists /\ ~timeseriesExists
    /\ Ckpts # {}

\* ------------------------------------------------------------------------
\* C17  (every field against the time axis)
\* ------------------------------------------------------------------------
\* The time stamps the index documents of all checkpoints list for field f.
ListedStamps(f) == {StampOf(a) : a \in Listed(f)}

\* C17 as stated: after _load_timeseries every loaded field has len(ts)
\* snapshots, and the snapshot at every position of every field was recorded
\* at the time the axis holds at that position.
C17_EveryFieldOnTheAxis ==
    Loaded => \A f \in fields : Stamps(datasets[f]) = times

\* C17 as amended: after _load_timeseries the time axis is that of one
\* loaded field, which has len(ts) snapshots, each recorded at the time the
\* axis holds at its position; another loaded field has len(ts) snapshots
\* at the times of the axis exactly when the archive lists the same set of
\* time stamps for it; with no field loaded the axis is empty.
C17_AxisOfOneField ==
    Loaded =>
        /\ fields = {} => times = <<>>
        /\ fields # {} =>
              \E first \in fields :
                  /\ Len(datasets[first]) = Len(times)
                  /\ \A step \in 0 .. (Len(times) - 1) :
                        StampOf(datasets[first][step + 1]) = times[step + 1]
                  /\ \A f \in fields :
                        (Stamps(datasets[f]) = times)
                            <=> (ListedStamps(f) = ListedStamps(first))

\* Witness of C17: two fields loaded, one checkpoint starting after time 0,
\* an axis of two steps or more; one field lies on the axis, the other has
\* fewer snapshots than the axis has steps.
C17_Witness ==
    /\ Loaded
    /\ fields = {"phi", "u"}
    /\ \E c \in Ckpts : archive[c].t_0 > 0
    /\ Len(times) >= 2
    /\ \E f, g \in fields :
          /\ Stamps(datasets[f]) = times
          /\ Len(datasets[g]) < Len(times)

\* ------------------------------------------------------------------------
\* TimeSeries._make_xdict, set_val and update (postprocess.py)
\* ------------------------------------------------------------------------
\* Largest number of mesh nodes, and of locally-owned degrees of freedom.
MaxNodes == 2

\* self.dim, the dimension of the mesh (geometry_in_time reads areas_x[1]).
Dim == 2

\* The coordinate tuples a node or a degree of freedom may lie at.
Coords == { <<0, 0>>, <<1, 0>>, <<0, 1>> }

\* The sequences of 1..MaxNodes distinct coordinate tuples.
CoordLists ==
    UNION { { s \in [1 .. n -> Coords] :
                \A i, j \in 1 .. n : i # j => s[i] # s[j] } : n \in 1 .. MaxNodes }

\* prep(x_list): tuple(x_list), the same numbers as a hashable key.
prep(x_list) == [d \in 1 .. Len(x_list) |-> x_list[d]]

\* _make_xdict, lines 184-185: dict of (prep(coordinate), i) over
\* enumerate(nodes); of two nodes at one coordinate the later index stays.
MakeXdict(nodeArr) ==
    [key \in {prep(nodeArr[i]) : i \in DOMAIN nodeArr} |->
        CHOOSE i \in DOMAIN nodeArr :
            /\ prep(nodeArr[i]) = key
            /\ \A j \in DOMAIN nodeArr : prep(nodeArr[j]) = key => j <= i]

\* The number the payload array at dset_address addr holds for node n in
\* column j: a different positive number for every (array, node, column).
Raw(addr, n, j) ==
    ((((CASE addr[2] = "phi" -> 1 [] addr[2] = "u" -> 2
             [] addr[2] = "g" -> 3 [] OTHER -> 4) * 100 + addr[1]) * 10
         + addr[3]) * 10 + n) * 10 + j

\* self.datasets[field][step][:, j] as node index -> number.
DataColumn(field, step, j) ==
    [n \in DOMAIN nodes |-> Raw(datasets[field][step + 1], n, j)]

\* df.Function(...): the local values start at zero.
ZeroVec == [i \in 1 .. Len(x) |-> 0]

\* set_val that adds onto the values the vector holds (a bug).
SetValAccumulate(values, f_data) ==
    IF \E i \in 1 .. Len(x) : prep(x[i]) \notin DOMAIN xdict
    THEN [ok |-> FALSE, values |-> values]
    ELSE [ok |-> TRUE,
          values |-> [i \in 1 .. Len(x) |->
                        values[i] + f_data[xdict[prep(x[i])]]]]

\* set_val that leaves out the dofs whose coordinate is not indexed (a bug).
SetValSkipMissing(values, f_data) ==
    [ok |-> TRUE,
     values |-> [i \in 1 .. Len(x) |->
                   IF prep(x[i]) \in DOMAIN xdict
                   THEN f_data[xdict[prep(x[i])]] ELSE values[i]]]

\* set_val, lines 192-197, on the local values of f: the list comprehension
\* looks every owned coordinate up before anything is assigned, so a missing
\* key raises KeyError with the values as they were; otherwise all values are
\* replaced and stored back.
SetVal(values, f_data) ==
    IF \E i \in 1 .. Len(x) : prep(x[i]) \notin DOMAIN xdict
    THEN [ok |-> FALSE, values |-> values]
    ELSE [ok |-> TRUE,
          values |-> [i \in 1 .. Len(x) |-> f_data[xdict[prep(x[i])]]]]

\* A loaded time series: both fields recorded by one checkpoint, field f
\* with cnt[f] entries, the time axis taken from the field first, as
\* _load_timeseries and __init__ leave it.
LoadedSeries(cnt, first) ==
    /\ settingsExists = TRUE /\ timeseriesExists = TRUE
    /\ archive = [c \in FromTsteps |->
                    IF c = 0
                    THEN [exists |-> TRUE, t_0 |-> 0, xdmf |-> Fields,
                          n |-> cnt]
                    ELSE [exists |-> FALSE, t_0 |-> 0, xdmf |-> {},
                          n |-> [f \in Fields |-> 0]]]
    /\ sought = [all |-> TRUE, list |-> {}]
    /\ tsPc = "ready"
    /\ LET files == XmlFiles(<<0>>, <<"phi", "u">>, 1, 1)
           data == LoadFiles(<<>>, files, 1)
       IN  /\ parameters = SortedItems(LoadParams(<<>>, <<0>>, 1))
           /\ times = TimeAxis(SortedItems(data[first]))
           /\ datasets = [key \in DOMAIN data |->
                            Column(SortedItems(data[key]), 2)]
           /\ filesRead = {files[i] : i \in 1 .. Len(files)}
           /\ meshFrom = files[1]
    /\ paramsRead = {0}
    /\ meshBuilt = TRUE
    /\ foldersMade = {"Analysis", "Plots", ".tmp"}

\* The mesh side after _load_mesh: the archive's nodes nodeList, the
\* coordinate index built from them, the dof coordinates dofList of the
\* function space, and functions created at zero.
LoadedMesh(nodeList, dofList) ==
    /\ nodes = [n \in 0 .. (Len(nodeList) - 1) |-> nodeList[n + 1]]
    /\ xdict = MakeXdict(nodes)
    /\ x = dofList
    /\ funcs = [f \in Fields |->
                  IF f = "u" THEN [d \in 0 .. (Dim - 1) |-> ZeroVec]
                  ELSE ZeroVec]
    /\ dummy = ZeroVec
    /\ lastStep = [f \in Fields |-> -1]
    /\ updPc = "ready"

\* The function space is built on the archive's mesh (get_mesh_from False)
\* or taken from another time series (get_mesh_from), whose dofs may lie
\* elsewhere.
UpdInit ==
    /\ \E cnt \in [Fields -> 1 .. MaxEntries], first \in Fields :
          LoadedSeries(cnt, first)
    /\ \E nodeList \in CoordLists, dofList \in CoordLists :
          LoadedMesh(nodeList, dofList)

\* self.datasets[field][step] exists (a step past the field's last snapshot
\* raises IndexError).
HasSnapshot(field, step) == step + 1 <= Len(datasets[field])

\* update(f, field, step) for a scalar field, lines 207-208.
UpdateScalar(field, step) ==
    /\ updPc = "ready"
    /\ field # "u"
    /\ IF HasSnapshot(field, step)
       THEN LET res == SetVal(funcs[field], DataColumn(field, step, 0)) IN
            /\ funcs' = [funcs EXCEPT ![field] = res.values]
            /\ updPc' = IF res.ok THEN "ready" ELSE "KeyError"
            /\ lastStep' = IF res.ok THEN [lastStep EXCEPT ![field] = step]
                           ELSE lastStep
       ELSE /\ updPc' = "IndexError"
            /\ UNCHANGED <<funcs, lastStep>>
    /\ UNCHANGED <<nodes, xdict, x, dummy>>
    /\ UpdFrame

\* The components 0..d-1 of the vector function set through the dummy
\* function: set_val(self.dummy_function, u_data[:, i]) then
\* df.assign(f.sub(i), self.dummy_function), lines 203-205.  The result holds
\* the function's components, the dummy's values and whether a lookup raised.
RECURSIVE UpdateComponents(_, _, _, _)
UpdateComponents(fvals, dvals, step, i) ==
    IF i >= Dim THEN [ok |-> TRUE, f |-> fvals, d |-> dvals]
    ELSE LET res == SetVal(dvals, DataColumn("u", step, i)) IN
         IF ~res.ok THEN [ok |-> FALSE, f |-> fvals, d |-> dvals]
         ELSE UpdateComponents([fvals EXCEPT ![i] = res.values],
                               res.values, step, i + 1)

\* update(f, "u", step), lines 201-205.
UpdateVector(step) ==
    /\ updPc = "ready"
    /\ IF HasSnapshot("u", step)
       THEN LET res == UpdateComponents(funcs["u"], dummy, step, 0) IN
            /\ funcs' = [funcs EXCEPT !["u"] = res.f]
            /\ dummy' = res.d
            /\ updPc' = IF res.ok THEN "ready" ELSE "KeyError"
            /\ lastStep' = IF res.ok THEN [lastStep EXCEPT !["u"] = step]
                           ELSE lastStep
       ELSE /\ updPc' = "IndexError"
            /\ UNCHANGED <<funcs, dummy, lastStep>>
    /\ UNCHANGED <<nodes, xdict, x>>
    /\ UpdFrame

UpdNext ==
    \/ \E field \in fields, step \in 0 .. (Len(times) - 1) :
          UpdateScalar(field, step)
    \/ \E step \in 0 .. (Len(times) - 1) : UpdateVector(step)

InitUpd ==
    UpdInit /\ GeomIdle /\ BndIdle /\ ParIdle /\ XdIdle /\ FluxIdle

SpecUpd == InitUpd /\ [][UpdNext]_vars

\* Some locally-owned degree of freedom lies at a coordinate that the
\* coordinate index has no entry for.
MissingCoord == \E i \in 1 .. Len(x) : prep(x[i]) \notin DOMAIN xdict

\* ------------------------------------------------------------------------
\* C3  (update overwrites with the requested step)
\* ------------------------------------------------------------------------
\* C3: after update(f, field, step) on a scalar field, whatever updates went
\* before, the value of f at every owned degree of freedom is the raw value
\* the snapshot of that step holds at the node index the coordinate index
\* gives for the degree's coordinate, the index of the node lying there.
C3_UpdateOverwrites ==
    \A field \in fields \ {"u"} :
        lastStep[field] >= 0 =>
            \A i \in 1 .. Len(x) :
                /\ nodes[xdict[prep(x[i])]] = x[i]
                /\ funcs[field][i]
                      = Raw(datasets[field][lastStep[field] + 1],
                            xdict[prep(x[i])], 0)

\* Witness of C3: the function was updated to the second step, after
\* another update had filled it, with the degrees of freedom numbered in
\* another order than the nodes.
C3_Witness ==
    /\ updPc = "ready"
    /\ lastStep["phi"] = 1
    /\ Len(x) = 2 /\ DOMAIN nodes = {0, 1}
    /\ x[1] = nodes[1] /\ x[2] = nodes[0]
    /\ funcs["phi"] = << Raw(<<0, "phi", 2>>, 1, 0), Raw(<<0, "phi", 2>>, 0, 0) >>

\* ------------------------------------------------------------------------
\* C4  (a coordinate missing from the index aborts the update)
\* ------------------------------------------------------------------------
\* C4: when the coordinate of an owned degree of freedom is not in the
\* coordinate index, every update call raises (KeyError from set_val's
\* lookup, unless the step has no snapshot and the call has raised
\* IndexError before it), with no update recorded as completed and the
\* storage of every function and of the dummy function as it was before the
\* call.
C4_MissingCoordinateAborts ==
    [][MissingCoord =>
          /\ updPc' \in {"KeyError", "IndexError"}
          /\ (\A f \in Fields : Len(datasets[f]) = Len(times))
                => updPc' = "KeyError"
          /\ lastStep' = lastStep
          /\ funcs' = funcs
          /\ dummy' = dummy]_vars

\* The same seen in the states: with a missing coordinate the functions hold
\* the zeros they were created with, and no update has completed.
MissingCoordKeepsZeros ==
    MissingCoord =>
        /\ \A f \in Fields : lastStep[f] = -1
        /\ \A f \in Fields \ {"u"} : funcs[f] = ZeroVec
        /\ \A d \in 0 .. (Dim - 1) : funcs["u"][d] = ZeroVec
        /\ dummy = ZeroVec

\* Witness of C4: an update has raised on a rank owning one degree whose
\* coordinate is indexed and one whose coordinate is not.
C4_Witness ==
    /\ updPc = "KeyError"
    /\ Len(x) = 2
    /\ prep(x[1]) \in DOMAIN xdict
    /\ prep(x[2]) \notin DOMAIN xdict

\* ------------------------------------------------------------------------
\* get_parameters (postprocess.py) and fetch_boundaries (flux_in_time.py)
\* ------------------------------------------------------------------------
\* Largest number of boundaries the problem's create_bcs names.
MaxBoundaries == 2

\* The names create_bcs may give its boundaries.
BoundaryNames == {"wall", "inlet", "periodic"}

\* The predicate objects listed under a name: two for "wall", one otherwise.
PredsOf(name) ==
    IF name = "wall"
    THEN << [kind |-> "named", name |-> name, j |-> 1],
            [kind |-> "named", name |-> name, j |-> 2] >>
    ELSE << [kind |-> "named", name |-> name, j |-> 1] >>

\* list(boundaries.items()) for the mappings create_bcs may return: up to
\* MaxBoundaries distinct names in the mapping's iteration order.
BoundaryItems ==
    UNION { { [i \in 1 .. n |-> <<s[i], PredsOf(s[i])>>] :
                s \in { q \in [1 .. n -> BoundaryNames] :
                          \A i, j \in 1 .. n : i # j => q[i] # q[j] } } :
            n \in 0 .. MaxBoundaries }

\* The words extra_boundaries.split(",") may hold.
ExtraWords == {"left", "Right", "top", "BOTTOM", "inner"}

\* s.lower()
Lower(s) ==
    CASE s = "Right" -> "right"
      [] s = "BOTTOM" -> "bottom"
      [] OTHER -> s

\* nodes[:, d].min() and nodes[:, d].max()
ColMin(d) ==
    CHOOSE v \in {nodes[n][d + 1] : n \in DOMAIN nodes} :
        \A n \in DOMAIN nodes : v <= nodes[n][d + 1]
ColMax(d) ==
    CHOOSE v \in {nodes[n][d + 1] : n \in DOMAIN nodes} :
        \A n \in DOMAIN nodes : v >= nodes[n][d + 1]

\* CrossSection(x0, dim)
CrossSection(x0, dim) == [kind |-> "CrossSection", x0 |-> x0, dim |-> dim]

\* get_parameters with the interval closed on the left (a bug:
\* time_a <= time < time_b).
GetParametersIndexClosedLeft(time) ==
    IF Len(parameters) = 1 THEN 1
    ELSE IF time <= parameters[1][1] THEN 1
    ELSE IF \E i \in 1 .. (Len(parameters) - 1) :
                parameters[i][1] <= time /\ time < parameters[i + 1][1]
         THEN CHOOSE i \in 1 .. (Len(parameters) - 1) :
                /\ parameters[i][1] <= time /\ time < parameters[i + 1][1]
                /\ \A j \in 1 .. (i - 1) :
                      ~(parameters[j][1] <= time /\ time < parameters[j + 1][1])
         ELSE Len(parameters)

\* get_parameters(time), lines 218-228, as the position in self.parameters
\* of the pair whose parameters are returned.
GetParametersIndex(time) ==
    IF Len(parameters) = 1 THEN 1
    ELSE IF time <= parameters[1][1] THEN 1
    ELSE IF \E i \in 1 .. (Len(parameters) - 1) :
                parameters[i][1] < time /\ time <= parameters[i + 1][1]
         THEN CHOOSE i \in 1 .. (Len(parameters) - 1) :
                /\ parameters[i][1] < time /\ time <= parameters[i + 1][1]
                /\ \A j \in 1 .. (i - 1) :
                      ~(parameters[j][1] < time /\ time <= parameters[j + 1][1])
         ELSE Len(parameters)

\* get_boundaries_list with the cross-sections appended to the first pass
\* (a bug: one pass for both kinds of facets).
GetBoundariesListOnePass(bnds, periodic, keys) ==
    LET first == (IF periodic # <<>> THEN << <<"periodic", periodic>> >>
                  ELSE <<>>) \o bnds
        extra ==
            (IF "left" \in keys
             THEN << <<"extra_left", <<CrossSection(ColMin(0), 0)>>>> >>
             ELSE <<>>)
            \o (IF "right" \in keys
                THEN << <<"extra_right", <<CrossSection(ColMax(0), 0)>>>> >>
                ELSE <<>>)
            \o (IF "top" \in keys
                THEN << <<"extra_top", <<CrossSection(ColMax(1), 1)>>>> >>
                ELSE <<>>)
            \o (IF "bottom" \in keys
                THEN << <<"extra_bottom", <<CrossSection(ColMin(1), 1)>>>> >>
                ELSE <<>>)
    IN  << first \o extra >>

\* get_boundaries_list, lines 26-47.
GetBoundariesList(bnds, periodic, keys) ==
    LET first == (IF periodic # <<>> THEN << <<"periodic", periodic>> >>
                  ELSE <<>>) \o bnds
        extra ==
            (IF "left" \in keys
             THEN << <<"extra_left", <<CrossSection(ColMin(0), 0)>>>> >>
             ELSE <<>>)
            \o (IF "right" \in keys
                THEN << <<"extra_right", <<CrossSection(ColMax(0), 0)>>>> >>
                ELSE <<>>)
            \o (IF "top" \in keys
                THEN << <<"extra_top", <<CrossSection(ColMax(1), 1)>>>> >>
                ELSE <<>>)
            \o (IF "bottom" \in keys
                THEN << <<"extra_bottom", <<CrossSection(ColMin(1), 1)>>>> >>
                ELSE <<>>)
    IN  IF Len(extra) > 0 THEN <<first, extra>> ELSE <<first>>

\* The marker numbered from 0 (a bug: i for i+1).
MarkerFromZero(i) == i

\* Line 55/56: the marker of the boundary enumerate() numbers i.
Marker(i) == i + 1

\* Lines 53-55 for one pass: boundary.mark(subdomain, i+1) for every
\* predicate of every boundary of the pass, as the calls in their order.
RECURSIVE MarkCalls(_, _)
MarkCalls(pass, pos) ==
    IF pos > Len(pass) THEN <<>>
    ELSE [j \in 1 .. Len(pass[pos][2]) |->
            [boundary |-> pass[pos][2][j], value |-> Marker(pos - 1)]]
         \o MarkCalls(pass, pos + 1)

\* Lines 52-56: boundary_to_mark[name] = (i+1, k) over the passes k and the
\* boundaries i of each.
RECURSIVE ToMark(_, _, _, _)
ToMark(btm, blist, k, pos) ==
    IF k > Len(blist) THEN btm
    ELSE IF pos > Len(blist[k]) THEN ToMark(btm, blist, k + 1, 1)
    ELSE ToMark(Put(btm, blist[k][pos][1], <<Marker(pos - 1), k - 1>>),
                blist, k, pos + 1)

\* method() has a loaded time series, on a mesh that extends in both
\* directions; the problem's create_bcs and constrained_domain return a
\* boundary mapping and a periodic predicate or None, and the user gives the
\* extra_boundaries words.
BndInit ==
    /\ LoadedSeries([f \in Fields |-> 1], "phi")
    /\ \E nodeList \in CoordLists : LoadedMesh(nodeList, nodeList)
    /\ \A d \in 0 .. (Dim - 1) : ColMin(d) < ColMax(d)
    /\ boundaries \in BoundaryItems
    /\ pbc \in { <<>>, <<[kind |-> "pbc"]>> }
    /\ extra_boundaries \in SUBSET ExtraWords
    /\ boundaries_list = <<>>
    /\ subdomains = <<>>
    /\ ds = <<>>
    /\ boundary_to_mark = <<>>
    /\ bndPc = "start"

\* method() line 93 and fetch_boundaries lines 62-72: params is the dict
\* get_parameters() returned, so params["mesh"] = ts.mesh writes into the
\* time series' own parameters; then the passes are listed.
FetchBoundariesList ==
    /\ bndPc = "start"
    /\ LET idx == GetParametersIndex(0) IN
        parameters' = [parameters EXCEPT
                         ![idx][2] = Put(@, "mesh", "ts.mesh")]
    /\ boundaries_list' =
          GetBoundariesList(boundaries, pbc,
                            {Lower(s) : s \in extra_boundaries})
    /\ bndPc' = "listed"
    /\ UNCHANGED <<settingsExists, timeseriesExists, archive, sought, tsPc,
                   times, datasets, paramsRead, filesRead, meshFrom,
                   meshBuilt, foldersMade>>
    /\ UNCHANGED <<boundaries, pbc, extra_boundaries, subdomains, ds,
                   boundary_to_mark>>
    /\ BndFrame

\* fetch_boundaries lines 74-82: one MeshFunction per pass, filled with 0,
\* and one Measure per MeshFunction.
MakeSubdomains ==
    /\ bndPc = "listed"
    /\ subdomains' = [k \in 1 .. Len(boundaries_list) |->
                        [fill |-> 0, marks |-> <<>>]]
    /\ ds' = [k \in 1 .. Len(boundaries_list) |-> [subdomain_data |-> k]]
    /\ bndPc' = "measured"
    /\ UNCHANGED <<boundaries, pbc, extra_boundaries, boundaries_list,
                   boundary_to_mark>>
    /\ UNCHANGED loadVars
    /\ BndFrame

\* get_boundary_to_mark, lines 50-58, called at line 84.
GetBoundaryToMark ==
    /\ bndPc = "measured"
    /\ subdomains' = [k \in 1 .. Len(subdomains) |->
                        [subdomains[k] EXCEPT
                           !.marks = @ \o MarkCalls(boundaries_list[k], 1)]]
    /\ boundary_to_mark' = ToMark(<<>>, boundaries_list, 1, 1)
    /\ bndPc' = "marked"
    /\ UNCHANGED <<boundaries, pbc, extra_boundaries, boundaries_list, ds>>
    /\ UNCHANGED loadVars
    /\ BndFrame

BndNext ==
    \/ FetchBoundariesList
    \/ MakeSubdomains
    \/ GetBoundaryToMark

InitBnd ==
    BndInit /\ GeomIdle /\ ParIdle /\ XdIdle /\ FluxIdle

SpecBnd == InitBnd /\ [][BndNext]_vars

\* The pairs (pass, position) of the boundaries of the passes.
Slots ==
    {kp \in (1 .. Len(boundaries_list)) \X (1 .. (MaxBoundaries + 4)) :
        kp[2] <= Len(boundaries_list[kp[1]])}

\* The slot the loops of get_boundary_to_mark visit last among those of a
\* name.
LastSlot(name) ==
    CHOOSE kp \in Slots :
        /\ boundaries_list[kp[1]][kp[2]][1] = name
        /\ \A o \in Slots :
              boundaries_list[o[1]][o[2]][1] = name =>
                  (o[1] < kp[1] \/ (o[1] = kp[1] /\ o[2] <= kp[2]))

\* The mark calls made on the MeshFunction of pass k for the boundary at
\* position pos.
CallsFor(k, pos) ==
    {c \in 1 .. Len(subdomains[k].marks) :
        \E j \in 1 .. Len(boundaries_list[k][pos][2]) :
            subdomains[k].marks[c].boundary = boundaries_list[k][pos][2][j]}

\* ------------------------------------------------------------------------
\* C5  (marker IDs)
\* ------------------------------------------------------------------------
\* C5: once get_boundary_to_mark has returned, in every pass the boundary at
\* position i of the pass (i = 1..n in the order supplied) has all its
\* predicates marked with i and nothing else, so the markers of a pass are
\* 1..n, distinct for distinct boundaries, numbered anew in each pass; the
\* periodic predicate, when given, gets the first mark call of pass 1, with
\* marker 1; no marker is 0; boundary_to_mark records for each name the
\* marker and pass of its boundary (of the last one, should a name repeat).
C5_MarkerIds ==
    bndPc = "marked" =>
        /\ \A kp \in Slots :
              /\ CallsFor(kp[1], kp[2]) # {}
              /\ \A c \in CallsFor(kp[1], kp[2]) :
                    subdomains[kp[1]].marks[c].value = kp[2]
        /\ \A k \in 1 .. Len(subdomains) :
              /\ \A c \in 1 .. Len(subdomains[k].marks) :
                    subdomains[k].marks[c].value
                        \in 1 .. Len(boundaries_list[k])
              /\ \A c, e \in 1 .. Len(subdomains[k].marks) :
                    c <= e => subdomains[k].marks[c].value
                                <= subdomains[k].marks[e].value
        /\ pbc # <<>> =>
              subdomains[1].marks[1] = [boundary |-> pbc[1], value |-> 1]
        /\ DOMAIN boundary_to_mark
              = {boundaries_list[kp[1]][kp[2]][1] : kp \in Slots}
        /\ \A name \in DOMAIN boundary_to_mark :
              /\ boundary_to_mark[name][1] >= 1
              /\ boundary_to_mark[name]
                    = <<LastSlot(name)[2], LastSlot(name)[1] - 1>>

\* Witness of C5: marked, with the periodic predicate, two named boundaries
\* behind it in pass 1 and two cross-sections in pass 2.
C5_Witness ==
    /\ bndPc = "marked"
    /\ pbc # <<>>
    /\ Len(boundaries) = 2
    /\ boundaries[1][1] = "inlet" /\ boundaries[2][1] = "wall"
    /\ Len(boundaries_list) = 2
    /\ Len(boundaries_list[2]) = 2
    /\ {"wall", "extra_top"} \subseteq DOMAIN boundary_to_mark
    /\ boundary_to_mark["wall"] = <<3, 0>>
    /\ boundary_to_mark["extra_top"] = <<2, 1>>

\* ------------------------------------------------------------------------
\* C6  (the two passes and their measures)
\* ------------------------------------------------------------------------
\* The cross-sections requested: the lower-cased words among the four.
Requested ==
    {Lower(s) : s \in extra_boundaries} \cap {"left", "right", "top", "bottom"}

\* The name and the cross-section get_boundaries_list makes for a word.
ExtraEntry(key) ==
    CASE key = "left" -> <<"extra_left", <<CrossSection(ColMin(0), 0)>>>>
      [] key = "right" -> <<"extra_right", <<CrossSection(ColMax(0), 0)>>>>
      [] key = "top" -> <<"extra_top", <<CrossSection(ColMax(1), 1)>>>>
      [] key = "bottom" -> <<"extra_bottom", <<CrossSection(ColMin(1), 1)>>>>

\* C6: the list has one or two passes; the first is the periodic predicate
\* (if given) followed by the named boundaries as supplied; a second pass
\* exists exactly when a cross-section is requested and holds one entry for
\* each requested cross-section and nothing else; and for every name the
\* recorded pass k has a measure built on the MeshFunction of pass k, on
\* which the predicates of that name's boundary were marked with the
\* recorded marker.
C6_TwoPasses ==
    bndPc \in {"listed", "measured", "marked"} =>
        /\ Len(boundaries_list) \in {1, 2}
        /\ boundaries_list[1]
              = (IF pbc # <<>> THEN << <<"periodic", pbc>> >> ELSE <<>>)
                    \o boundaries
        /\ (Len(boundaries_list) = 2) <=> (Requested # {})
        /\ Len(boundaries_list) = 2 =>
              /\ Len(boundaries_list[2]) = Cardinality(Requested)
              /\ {boundaries_list[2][i] : i \in 1 .. Len(boundaries_list[2])}
                    = {ExtraEntry(key) : key \in Requested}
        /\ bndPc = "marked" =>
              \A name \in DOMAIN boundary_to_mark :
                  LET mark == boundary_to_mark[name][1]
                      k == boundary_to_mark[name][2] + 1
                  IN  /\ k \in DOMAIN ds
                      /\ ds[k].subdomain_data = k
                      /\ \E pos \in 1 .. Len(boundaries_list[k]) :
                            /\ boundaries_list[k][pos][1] = name
                            /\ CallsFor(k, pos) # {}
                            /\ \A c \in CallsFor(k, pos) :
                                  subdomains[k].marks[c].value = mark

\* Witness of C6: marked, a named boundary in pass 1 behind the periodic
\* predicate and the right and bottom cross-sections, asked for in capitals,
\* in pass 2 beside an unknown word that is ignored.
C6_Witness ==
    /\ bndPc = "marked"
    /\ pbc # <<>>
    /\ Len(boundaries) >= 1
    /\ extra_boundaries = {"Right", "BOTTOM", "inner"}
    /\ Len(boundaries_list) = 2
    /\ {"extra_right", "extra_bottom"} \subseteq DOMAIN boundary_to_mark
    /\ boundary_to_mark["extra_right"] = <<1, 1>>
    /\ boundary_to_mark["extra_bottom"] = <<2, 1>>
    /\ ds[2].subdomain_data = 2

\* ------------------------------------------------------------------------
\* TimeSeries.get_parameters (postprocess.py)
\* ------------------------------------------------------------------------
\* Largest start time t_0 of a checkpoint of the archives get_parameters is
\* called on.
MaxStart == 2

\* The starting steps the parameter files of those archives are named by.
ParamTsteps == {0, 50, 100}

\* The times get_parameters is called with.
QueryTimes == 0 .. (MaxStart + 1)

\* A checkpoint of an archive that holds parameter files and no index
\* document.
ParamCheckpoint ==
    { c \in [exists : BOOLEAN, t_0 : 0 .. MaxStart, xdmf : {{}},
             n : {[f \in Fields |-> 0]}] : ~c.exists => c.t_0 = 0 }

\* A TimeSeries about to be constructed on such an archive.
ParamsInit ==
    /\ settingsExists = TRUE
    /\ timeseriesExists = TRUE
    /\ archive \in [ParamTsteps -> ParamCheckpoint]
    /\ sought = [all |-> TRUE, list |-> {}]
    /\ tsPc = "new"
    /\ parameters = <<>>
    /\ times = <<>>
    /\ datasets = <<>>
    /\ paramsRead = {}
    /\ filesRead = {}
    /\ meshFrom = <<>>
    /\ meshBuilt = FALSE
    /\ foldersMade = {}
    /\ got = <<>>

\* ts.get_parameters(time), lines 218-228, on the constructed time series:
\* with no parameter file loaded self.parameters[0] raises IndexError,
\* otherwise the dict of one pair of self.parameters is returned.
GetParameters(time) ==
    /\ tsPc = "ready"
    /\ got' = [time |-> time,
               result |-> IF Len(parameters) = 0 THEN <<>>
                          ELSE <<parameters[GetParametersIndex(time)][2]>>]
    /\ UNCHANGED loadVars
    /\ ParFrame

ParamsNext ==
    \/ LoadTimeseries
    \/ LoadNoFields
    \/ \E time \in QueryTimes : GetParameters(time)

InitParams ==
    ParamsInit /\ GeomIdle /\ UpdIdle /\ BndIdle /\ XdIdle /\ FluxIdle

SpecParams == InitParams /\ [][ParamsNext]_vars

\* The start times of the checkpoints self.parameters holds.
Starts == {parameters[i][1] : i \in 1 .. Len(parameters)}

\* ------------------------------------------------------------------------
\* C16  (the checkpoint get_parameters chooses)
\* ------------------------------------------------------------------------
\* C16: self.parameters is sorted by strictly increasing t_0, and a call of
\* get_parameters(time) on a time series with a checkpoint or more returns
\* the parameters held for the greatest t_0 strictly less than time, or
\* those held for the smallest t_0 when no t_0 is strictly less than time
\* (so for time equal to the t_0 of a later checkpoint those of the
\* checkpoint before it); what is returned is the parameter file of a
\* checkpoint of the archive, read whole.
C16_GreatestStartBefore ==
    /\ \A i, j \in 1 .. Len(parameters) :
          i < j => parameters[i][1] < parameters[j][1]
    /\ (got # <<>> /\ Len(parameters) >= 1) =>
          LET before == {s \in Starts : s < got.time}
              start == IF before = {}
                       THEN CHOOSE s \in Starts : \A o \in Starts : s <= o
                       ELSE CHOOSE s \in before : \A o \in before : s >= o
          IN  /\ got.result # <<>>
              /\ got.result[1].t_0 = start
              /\ \E i \in 1 .. Len(parameters) :
                    parameters[i] = <<start, got.result[1]>>
              /\ \E c \in Ckpts :
                    got.result[1]
                        = [from_tstep |-> c, t_0 |-> archive[c].t_0]

\* Witness of C16: three checkpoints with different start times, and a call
\* with the start time of the last one that returned the parameters of the
\* second.
C16_Witness ==
    /\ Len(parameters) = 3
    /\ got # <<>>
    /\ got.time = parameters[3][1]
    /\ got.result = <<parameters[2][2]>>

\* ------------------------------------------------------------------------
\* TimeSeries._make_xdict on the ranks of an MPI run (postprocess.py)
\* ------------------------------------------------------------------------
XdRanks == 0 .. (nprocs - 1)

\* A node list as the array self.nodes, indexed from 0.
NodeArray(nodeList) == [n \in 0 .. (Len(nodeList) - 1) |-> nodeList[n + 1]]

\* The numberings of the nodes of one mesh: the lists of the same
\* coordinates in any order.
Renumbered(nodeList) ==
    { s \in CoordLists :
        /\ Len(s) = Len(nodeList)
        /\ {s[i] : i \in 1 .. Len(s)}
              = {nodeList[i] : i \in 1 .. Len(nodeList)} }

\* What comm.bcast sends for an object: its pickle, for a dict the set of
\* its (key, value) items, for None the mark of None.
Pickle(obj) ==
    IF obj = <<>> THEN [none |-> TRUE, items |-> {}]
    ELSE [none |-> FALSE,
          items |-> {<<key, obj[1][key]>> : key \in DOMAIN obj[1]}]

\* The object a receiver builds from a pickle.
Unpickle(msg) ==
    IF msg.none THEN <<>>
    ELSE << [key \in {it[1] : it \in msg.items} |->
               (CHOOSE it \in msg.items : it[1] = key)[2]] >>

\* A broadcast that hands every rank its own object back (a bug: no root).
BcastOwn(own, msg) == own

\* comm.bcast(xdict, root=0), line 188, as seen by a rank other than the
\* root: the object the root sent, whatever the rank passed in.
Bcast(own, msg) == Unpickle(msg)

\* Every rank constructs its TimeSeries on the same archive; the node array
\* a rank read is that of the mesh, in the numbering of the payload store
\* the rank opened first.
XdictInit ==
    /\ nprocs \in 1 .. MaxRanks
    /\ \E nodeList \in CoordLists :
          rankNodes \in [0 .. (nprocs - 1) ->
                           {NodeArray(s) : s \in Renumbered(nodeList)}]
    /\ xdPc = [r \in 0 .. (nprocs - 1) |-> "start"]
    /\ rankXdict = [r \in 0 .. (nprocs - 1) |-> <<>>]
    /\ bcastMsg = <<>>
    /\ built = {}
    /\ selfXdict = [r \in 0 .. (nprocs - 1) |-> <<>>]

\* Lines 183-187: rank 0 builds the dict from its nodes, every other rank
\* sets xdict = None.
XdictBuild(r) ==
    /\ xdPc[r] = "start"
    /\ IF r = 0
       THEN /\ rankXdict' = [rankXdict EXCEPT ![r] = <<MakeXdict(rankNodes[r])>>]
            /\ built' = built \cup {r}
       ELSE /\ rankXdict' = [rankXdict EXCEPT ![r] = <<>>]
            /\ built' = built
    /\ xdPc' = [xdPc EXCEPT ![r] = "bcast"]
    /\ UNCHANGED <<nprocs, rankNodes, bcastMsg, selfXdict>>
    /\ XdFrame

\* Lines 188-189 on the root: its object is sent and returned.
XdictBcastRoot(r) ==
    /\ xdPc[r] = "bcast"
    /\ r = 0
    /\ bcastMsg' = <<Pickle(rankXdict[r])>>
    /\ selfXdict' = [selfXdict EXCEPT ![r] = rankXdict[r]]
    /\ xdPc' = [xdPc EXCEPT ![r] = "returned"]
    /\ UNCHANGED <<nprocs, rankNodes, rankXdict, built>>
    /\ XdFrame

\* Lines 188-189 on another rank: the call blocks until the root's message
\* is there, then the object received is returned.
XdictBcastReceive(r) ==
    /\ xdPc[r] = "bcast"
    /\ r # 0
    /\ bcastMsg # <<>>
    /\ rankXdict' = [rankXdict EXCEPT ![r] = Bcast(rankXdict[r], bcastMsg[1])]
    /\ selfXdict' = [selfXdict EXCEPT ![r] = Bcast(rankXdict[r], bcastMsg[1])]
    /\ xdPc' = [xdPc EXCEPT ![r] = "returned"]
    /\ UNCHANGED <<nprocs, rankNodes, bcastMsg, built>>
    /\ XdFrame

XdictNext ==
    \/ \E r \in XdRanks : XdictBuild(r)
    \/ \E r \in XdRanks : XdictBcastRoot(r)
    \/ \E r \in XdRanks : XdictBcastReceive(r)

InitXdict ==
    XdictInit /\ GeomIdle /\ LoadIdle /\ UpdIdle /\ BndIdle /\ ParIdle
        /\ FluxIdle

SpecXdict == InitXdict /\ [][XdictNext]_vars

\* ------------------------------------------------------------------------
\* C15  (one coordinate index for all ranks)
\* ------------------------------------------------------------------------
\* C15: no rank other than rank 0 builds an index; the index _make_xdict
\* returns on any rank is the one rank 0 built from its nodes; and for every
\* coordinate tuple, two ranks that have returned either both have no entry
\* or both have the same node index.
C15_OneIndexForAllRanks ==
    /\ built \subseteq {0}
    /\ \A r \in XdRanks :
          xdPc[r] = "returned" =>
              selfXdict[r] = <<MakeXdict(rankNodes[0])>>
    /\ \A r, q \in XdRanks :
          (xdPc[r] = "returned" /\ xdPc[q] = "returned") =>
              /\ selfXdict[r] # <<>> /\ selfXdict[q] # <<>>
              /\ \A key \in Coords :
                    IF key \in DOMAIN selfXdict[r][1]
                    THEN /\ key \in DOMAIN selfXdict[q][1]
                         /\ selfXdict[r][1][key] = selfXdict[q][1][key]
                    ELSE key \notin DOMAIN selfXdict[q][1]

\* Witness of C15: three ranks have returned; rank 1 had read the nodes in
\* another numbering than rank 0, and holds rank 0's index of two entries.
C15_Witness ==
    /\ nprocs = 3
    /\ \A r \in XdRanks : xdPc[r] = "returned"
    /\ rankNodes[1] # rankNodes[0]
    /\ selfXdict[1] = selfXdict[0]
    /\ selfXdict[1] # <<>>
    /\ Cardinality(DOMAIN selfXdict[1][1]) = 2
    /\ selfXdict[1][1] # MakeXdict(rankNodes[1])

\* ------------------------------------------------------------------------
\* method() of analysis_scripts/flux_in_time.py
\* ------------------------------------------------------------------------
\* Largest number of steps get_steps returns.
MaxFluxSteps == 2

\* The fields of the time series method() is run on, as the index documents
\* of its one checkpoint in the order they are found.
FluxFieldLists ==
    { <<"u">>, <<"phi">>, <<"phi", "u">>, <<"phi", "u", "g", "V">> }

\* The members of a list.
Members(s) == {s[i] : i \in 1 .. Len(s)}

\* A loaded time series with the fields of fieldList recorded by one
\* checkpoint: k entries for each, one entry less for u when uShort, and the
\* time axis taken from the field first.
FluxSeries(fieldList, k, uShort, first) ==
    /\ settingsExists = TRUE /\ timeseriesExists = TRUE
    /\ archive = [c \in FromTsteps |->
                    IF c = 0
                    THEN [exists |-> TRUE, t_0 |-> 0,
                          xdmf |-> Members(fieldList),
                          n |-> [f \in Members(fieldList) |->
                                   IF f = "u" /\ uShort THEN k - 1 ELSE k]]
                    ELSE [exists |-> FALSE, t_0 |-> 0, xdmf |-> {},
                          n |-> [f \in Members(fieldList) |-> 0]]]
    /\ sought = [all |-> TRUE, list |-> {}]
    /\ tsPc = "ready"
    /\ LET found == XmlFiles(<<0>>, fieldList, 1, 1)
           loaded == LoadFiles(<<>>, found, 1)
       IN  /\ parameters = SortedItems(LoadParams(<<>>, <<0>>, 1))
           /\ times = TimeAxis(SortedItems(loaded[first]))
           /\ datasets = [key \in DOMAIN loaded |->
                            Column(SortedItems(loaded[key]), 2)]
           /\ filesRead = {found[i] : i \in 1 .. Len(found)}
           /\ meshFrom = found[1]
    /\ paramsRead = {0}
    /\ meshBuilt = TRUE
    /\ foldersMade = {"Analysis", "Plots", ".tmp"}

\* The mesh side of that time series: two nodes, the degrees of freedom of
\* the function space numbered the other way round, and ts.functions() at
\* zero.
FluxMesh ==
    /\ nodes = NodeArray(<< <<1, 0>>, <<0, 1>> >>)
    /\ xdict = MakeXdict(nodes)
    /\ x = << <<0, 1>>, <<1, 0>> >>
    /\ funcs = [f \in fields |->
                  IF f = "u" THEN [d \in 0 .. (Dim - 1) |-> ZeroVec]
                  ELSE ZeroVec]
    /\ dummy = ZeroVec
    /\ lastStep = [f \in fields |-> -1]
    /\ updPc = "ready"

\* method() is called on a loaded time series by the process of some rank;
\* the problem module gives the boundaries and the user the extra words.
FluxInit ==
    /\ \E fieldList \in FluxFieldLists, k \in 1 .. MaxEntries,
          uShort \in BOOLEAN :
          /\ uShort => (k >= 2 /\ "u" \in Members(fieldList))
          /\ \E first \in {fieldList[1], fieldList[Len(fieldList)]} :
                FluxSeries(fieldList, k, uShort, first)
    /\ FluxMesh
    /\ boundaries \in { <<>>, << <<"wall", PredsOf("wall")>> >> }
    /\ pbc \in { <<>>, <<[kind |-> "pbc"]>> }
    /\ extra_boundaries \in { {}, {"top"} }
    /\ boundaries_list = <<>>
    /\ subdomains = <<>>
    /\ ds = <<>>
    /\ boundary_to_mark = <<>>
    /\ bndPc = "start"
    /\ fluxRank \in {0, 1}
    /\ steps = <<>>
    /\ fluxes = <<>>
    /\ fluxI = 0
    /\ fluxT = <<>>
    /\ fluxData = <<>>
    /\ fluxFiles = <<>>

\* get_steps(ts, dt), line 94: a list of different steps of the time
\* series, at most MaxFluxSteps of them, in the order get_steps lists them.
GetSteps ==
    UNION { { s \in [1 .. n -> 0 .. (Len(times) - 1)] :
                \A i, j \in 1 .. n : i # j => s[i] # s[j] } :
            n \in 0 .. MaxFluxSteps }

\* The dict fluxes of lines 156-167 for the switches enable_NS, enable_PF
\* and enable_EC of params and no solutes: each name with the fields its
\* expression reads (u is a constant without enable_NS, phi a constant and
\* the mobility term absent without enable_PF).
Fluxes(ns, pf, ec) ==
    LET uDep == IF ns THEN {"u"} ELSE {}
        pfDep == IF pf THEN {"phi", "g"} ELSE {}
        base == [name \in {"Velocity", "Phase", "Mass"} |->
                   CASE name = "Velocity" -> uDep
                     [] name = "Phase" -> uDep \cup pfDep
                     [] name = "Mass" -> {"u"} \cup pfDep]
    IN  IF ec THEN base @@ ("E-field" :> {"V"}) ELSE base

\* The fields lines 104-159 look up in x_ for those switches.
Needed(ns, pf, ec) ==
    {"u"} \cup (IF pf THEN {"phi", "g"} ELSE {})
          \cup (IF ec THEN {"V"} ELSE {})

\* np.zeros(n)
ZeroArray(n) == [i \in 1 .. n |-> 0]

\* The flux names of the model in the order sorted() puts strings in.
FluxOrder == <<"E-field", "Mass", "Phase", "Velocity">>

\* The keys in the order they were put into the dict (a bug: no sorting).
FluxKeysInserted(names) ==
    LET Among(name) == name \in names
    IN  SelectSeq(<<"Velocity", "Phase", "Mass", "E-field">>, Among)

\* Line 191: sorted(fluxes.keys()).
FluxKeys(names) ==
    LET Among(name) == name \in names
    IN  SelectSeq(FluxOrder, Among)

\* df.assemble(df.dot(flux, n)*ds[k](mark)), lines 185-186: a number that
\* depends on the flux, on the facets marked mark on the measure of pass k
\* and on the values the functions the flux reads hold at the call.
Integral(name, markAndPass, fvals) ==
    [flux |-> name, mark |-> markAndPass[1], k |-> markAndPass[2],
     of |-> [f \in fluxes[name] |-> fvals[f]]]

\* The fields of a set, as a list.
ListOf(S) ==
    LET Among(f) == f \in S
    IN  SelectSeq(<<"phi", "u", "g", "V">>, Among)

\* Lines 180-181: ts.update(x_[field], field, step) for the fields in the
\* order the dict x_ lists them, up to the first call that raises.
RECURSIVE UpdateAll(_, _, _, _, _, _)
UpdateAll(order, i, fvals, dvals, last, step) ==
    IF i > Len(order)
    THEN [pc |-> "ok", funcs |-> fvals, dummy |-> dvals, lastStep |-> last]
    ELSE IF ~HasSnapshot(order[i], step)
    THEN [pc |-> "IndexError", funcs |-> fvals, dummy |-> dvals,
          lastStep |-> last]
    ELSE IF order[i] = "u"
    THEN LET res == UpdateComponents(fvals["u"], dvals, step, 0) IN
         IF ~res.ok
         THEN [pc |-> "KeyError", funcs |-> [fvals EXCEPT !["u"] = res.f],
               dummy |-> res.d, lastStep |-> last]
         ELSE UpdateAll(order, i + 1, [fvals EXCEPT !["u"] = res.f], res.d,
                        [last EXCEPT !["u"] = step], step)
    ELSE LET res == SetVal(fvals[order[i]], DataColumn(order[i], step, 0)) IN
         IF ~res.ok
         THEN [pc |-> "KeyError", funcs |-> fvals, dummy |-> dvals,
               lastStep |-> last]
         ELSE UpdateAll(order, i + 1,
                        [fvals EXCEPT ![order[i]] = res.values], dvals,
                        [last EXCEPT ![order[i]] = step], step)

\* np.savetxt's text for one number: the format "%.18e" applied to it.
Fmt(v) == [fmt |-> "%.18e", value |-> v]

\* The number a reader parses from such a text.
Parse(cell) == cell.value

\* np.savetxt(outfile, array, header=header): the header line behind "# "
\* and one line per row of the array, the numbers of a line formatted and
\* separated by the default delimiter, a blank.
Savetxt(array, header) ==
    [header |-> header,
     delimiter |-> " ",
     rows |-> [i \in 1 .. Len(array) |->
                 [c \in 1 .. Len(array[i]) |-> Fmt(array[i][c])]]]

\* Lines 94-175: the steps are listed, the functions and switches looked up
\* (a field the switches ask for and the time series does not hold raises
\* KeyError), the fluxes defined and the arrays t and data allocated.
FluxSetup ==
    /\ bndPc = "marked"
    /\ \E st \in GetSteps, ns \in BOOLEAN, pf \in BOOLEAN, ec \in BOOLEAN :
          IF Needed(ns, pf, ec) \subseteq fields
          THEN /\ steps' = st
               /\ fluxes' = Fluxes(ns, pf, ec)
               /\ fluxT' = ZeroArray(Len(st))
               /\ fluxData' =
                     [b \in DOMAIN boundary_to_mark |->
                        [name \in DOMAIN Fluxes(ns, pf, ec) |->
                           ZeroArray(Len(st))]]
               /\ bndPc' = "loop"
          ELSE /\ bndPc' = "KeyError"
               /\ UNCHANGED <<steps, fluxes, fluxT, fluxData>>
    /\ UNCHANGED <<fluxRank, fluxI, fluxFiles>>
    /\ UNCHANGED <<boundaries, pbc, extra_boundaries, boundaries_list,
                   subdomains, ds, boundary_to_mark>>
    /\ UNCHANGED <<loadVars, updVars>>
    /\ FluxFrame

\* One pass of the loop of lines 177-188: every function is updated to the
\* step, every flux is integrated over every boundary into slot i of its
\* array, and the time of the step is put into t[i].
FluxStep ==
    /\ bndPc = "loop"
    /\ fluxI < Len(steps)
    /\ LET i == fluxI + 1
           step == steps[fluxI + 1]
           missing == {f \in DOMAIN funcs : ~HasSnapshot(f, step)}
       IN  \* the dict x_ lists its fields in an order of its own: the
           \* fields updated before a field without a snapshot of the step
           \* raises are any of the others
           \E before \in (IF missing = {} THEN {DOMAIN funcs}
                          ELSE SUBSET (DOMAIN funcs \ missing)) :
             LET order == IF missing = {} THEN ListOf(before)
                          ELSE ListOf(before)
                                 \o <<CHOOSE f \in missing : TRUE>>
                 res == UpdateAll(order, 1, funcs, dummy, lastStep, step)
             IN
             /\ funcs' = res.funcs
             /\ dummy' = res.dummy
             /\ lastStep' = res.lastStep
             /\ IF res.pc = "ok"
                THEN /\ fluxData' =
                           [b \in DOMAIN fluxData |->
                              [name \in DOMAIN fluxes |->
                                 [fluxData[b][name] EXCEPT
                                    ![i] = Integral(name, boundary_to_mark[b],
                                                    res.funcs)]]]
                     /\ fluxT' = [fluxT EXCEPT ![i] = times[step + 1]]
                     /\ fluxI' = i
                     /\ bndPc' = "loop"
                ELSE /\ bndPc' = res.pc
                     /\ UNCHANGED <<fluxData, fluxT, fluxI>>
    /\ UNCHANGED <<fluxRank, steps, fluxes, fluxFiles>>
    /\ UNCHANGED <<boundaries, pbc, extra_boundaries, boundaries_list,
                   subdomains, ds, boundary_to_mark>>
    /\ UNCHANGED <<nodes, xdict, x, updPc>>
    /\ UNCHANGED loadVars
    /\ FluxFrame

\* Lines 190-204, after the loop: the rows zip(steps, t, the arrays of the
\* sorted flux names) of every boundary are built, and rank 0 writes one
\* file per boundary.
FluxSave ==
    /\ bndPc = "loop"
    /\ fluxI = Len(steps)
    /\ LET flux_keys == FluxKeys(DOMAIN fluxes)
           savedata(b) ==
               [i \in 1 .. Len(steps) |->
                  <<steps[i], fluxT[i]>>
                     \o [c \in 1 .. Len(flux_keys) |->
                           fluxData[b][flux_keys[c]][i]]]
       IN  fluxFiles' =
               IF fluxRank = 0
               THEN [b \in DOMAIN boundary_to_mark |->
                       Savetxt(savedata(b), <<"Step", "Time">> \o flux_keys)]
               ELSE fluxFiles
    /\ bndPc' = "saved"
    /\ UNCHANGED <<fluxRank, steps, fluxes, fluxI, fluxT, fluxData>>
    /\ UNCHANGED <<boundaries, pbc, extra_boundaries, boundaries_list,
                   subdomains, ds, boundary_to_mark>>
    /\ UNCHANGED <<loadVars, updVars>>
    /\ FluxFrame

FluxNext ==
    \/ FetchBoundariesList
    \/ MakeSubdomains
    \/ GetBoundaryToMark
    \/ FluxSetup
    \/ FluxStep
    \/ FluxSave

InitFlux == FluxInit /\ GeomIdle /\ ParIdle /\ XdIdle

SpecFlux == InitFlux /\ [][FluxNext]_vars

\* The values the function of field f holds when it represents the
\* snapshot of a step: at every owned degree of freedom the raw value of
\* the node at its coordinate, for u one such vector per component.
Snapshot(f, step) ==
    IF f = "u"
    THEN [d \in 0 .. (Dim - 1) |->
            [i \in 1 .. Len(x) |->
               Raw(datasets[f][step + 1], xdict[prep(x[i])], d)]]
    ELSE [i \in 1 .. Len(x) |->
            Raw(datasets[f][step + 1], xdict[prep(x[i])], 0)]

\* The position of a flux name in the lexicographic order of the names.
LexPos(name) == CHOOSE p \in 1 .. Len(FluxOrder) : FluxOrder[p] = name

\* ------------------------------------------------------------------------
\* C11  (the rows of a flux table)
\* ------------------------------------------------------------------------
\* C11: once method() has saved, rank 0 has written a table for every
\* boundary; the header of a table names Step, Time and then every flux
\* once, in lexicographic order; the table has one row per entry of steps,
\* in the order of steps; and read back, row i holds steps[i], the time
\* ts.times[steps[i]] and under every flux name the integral of that flux
\* over the boundary taken with every function it reads holding the
\* snapshot of step steps[i].
C11_FluxTableRows ==
    bndPc = "saved" =>
        /\ fluxRank = 0 => DOMAIN fluxFiles = DOMAIN boundary_to_mark
        /\ \A b \in DOMAIN fluxFiles :
              LET file == fluxFiles[b]
                  ncol == Len(file.header)
              IN  /\ ncol = 2 + Cardinality(DOMAIN fluxes)
                  /\ file.header[1] = "Step" /\ file.header[2] = "Time"
                  /\ {file.header[c] : c \in 3 .. ncol} = DOMAIN fluxes
                  /\ \A c, e \in 3 .. ncol :
                        c < e => LexPos(file.header[c]) < LexPos(file.header[e])
                  /\ Len(file.rows) = Len(steps)
                  /\ \A i \in 1 .. Len(steps) :
                        /\ Len(file.rows[i]) = ncol
                        /\ Parse(file.rows[i][1]) = steps[i]
                        /\ Parse(file.rows[i][2]) = times[steps[i] + 1]
                        /\ \A c \in 3 .. ncol :
                              Parse(file.rows[i][c])
                                = [flux |-> file.header[c],
                                   mark |-> boundary_to_mark[b][1],
                                   k |-> boundary_to_mark[b][2],
                                   of |-> [f \in fluxes[file.header[c]] |->
                                             Snapshot(f, steps[i])]]

\* Witness of C11: rank 0 has saved the tables of two boundaries, one of
\* them a cross-section of the second pass, for the steps 1 and 0 in that
\* order, with the electric field among the fluxes.
C11_Witness ==
    /\ bndPc = "saved"
    /\ fluxRank = 0
    /\ steps = <<1, 0>>
    /\ "E-field" \in DOMAIN fluxes
    /\ DOMAIN fluxFiles = {"wall", "extra_top"}
    /\ Len(fluxFiles["extra_top"].rows) = 2
    /\ Parse(fluxFiles["extra_top"].rows[1][1]) = 1
    /\ Parse(fluxFiles["extra_top"].rows[2][1]) = 0
    /\ fluxFiles["wall"].header
          = <<"Step", "Time", "E-field", "Mass", "Phase", "Velocity">>

\* On a rank other than 0 method() writes no file.
FluxOnlyRankZeroWrites == fluxRank # 0 => fluxFiles = <<>>

\* ------------------------------------------------------------------------
\* C14  (an analysis leaves the time series unchanged)
\* ------------------------------------------------------------------------
\* C14: no step of method() and fetch_boundaries changes the parameters of
\* a checkpoint, the time axis, the nodes or the snapshots of a field of
\* the time series.
C14_TimeSeriesUnchanged ==
    [][/\ parameters' = parameters
       /\ times' = times
       /\ nodes' = nodes
       /\ datasets' = datasets]_vars

=============================================================================
